---------------------------- MODULE Spec2Model ----------------------------
(***************************************************************************)
(* Model of single-site-browser.py: the SsbFirefox class (identity, path   *)
(* layout, profile materialisation, favicon download, desktop launcher,    *)
(* run and clean) together with normalize_url and main.                    *)
(*                                                                         *)
(* Python strings that the program takes apart (urls, names) are sequences *)
(* of one-character strings.  The filesystem of one identity is the record *)
(* fs.  Every invocation of the script is a process p whose program        *)
(* counter proc[p].pc walks through the statements of main; the network,   *)
(* the child processes and the operator are the environment.               *)
(***************************************************************************)
EXTENDS Integers, Sequences, FiniteSets, TLC

VARIABLES
    fs,        \* the files, directories and menu entry of the identity
    proc,      \* per invocation: position, arguments, locals, outcome
    arg_url,   \* the raw --url value handed to the argument parser
    arg_name,  \* the --name value handed to the argument parser
    ssb_url,   \* args.url after type=normalize_url
    ssb_name,  \* SsbFirefox(args.url, args.name).name
    stage      \* position of the argument-to-identity pipeline

vars == <<fs, proc, arg_url, arg_name, ssb_url, ssb_name, stage>>

(***************************************************************************)
(* Bounds of the model.                                                    *)
(***************************************************************************)
MaxChunks == 3      \* a raw url is a concatenation of at most this many chunks

(***************************************************************************)
(* Python str operations, on sequences of characters.                      *)
(***************************************************************************)
StartsWith(s, pre) ==
    /\ Len(pre) <= Len(s)
    /\ SubSeq(s, 1, Len(pre)) = pre

EndsWith(s, suf) ==
    /\ Len(suf) <= Len(s)
    /\ SubSeq(s, Len(s) - Len(suf) + 1, Len(s)) = suf

RECURSIVE Replace(_, _, _)
\* str.replace(old, new): every non-overlapping occurrence, left to right.
Replace(s, old, new) ==
    IF Len(s) < Len(old) THEN s
    ELSE IF StartsWith(s, old)
         THEN new \o Replace(SubSeq(s, Len(old) + 1, Len(s)), old, new)
         ELSE <<Head(s)>> \o Replace(Tail(s), old, new)

RECURSIVE Contains(_, _)
\* the `in` operator on strings
Contains(s, sub) ==
    IF Len(s) < Len(sub) THEN FALSE
    ELSE StartsWith(s, sub) \/ Contains(Tail(s), sub)

HTTP_ == <<"h", "t", "t", "p">>
HTTP == <<"h", "t", "t", "p", ":", "/", "/">>
HTTPS == <<"h", "t", "t", "p", "s", ":", "/", "/">>
SLASH == <<"/">>
UNDERSCORE == <<"_">>

\* args.name when --name is not given (None), and a given value
None == [given |-> FALSE, value |-> <<>>]
Some(v) == [given |-> TRUE, value |-> v]

normalize_url(url) ==
    IF StartsWith(url, HTTP_) THEN url ELSE HTTPS \o url

\* SsbFirefox.__init__: self.name
SsbName(url, name) ==
    IF ~name.given
    THEN Replace(Replace(Replace(url, HTTP, <<>>), HTTPS, <<>>), SLASH, UNDERSCORE)
    ELSE name.value


(***************************************************************************)
(* Path layout.  A path is the directory of ~/.local/share it lies in      *)
(* (base), the entry of that directory derived from the name, and the      *)
(* components below it.                                                    *)
(***************************************************************************)
DESKTOP_SUFFIX == <<".", "d", "e", "s", "k", "t", "o", "p">>
SSB_PREFIX == <<"S", "S", "B", "_">>

JoinPath(path, parts) == [path EXCEPT !.rel = @ \o parts]

config_path(name) == [base |-> "ssb", name |-> name, rel |-> <<>>]

profile_path(name) == JoinPath(config_path(name), <<"profile">>)

favicon_path(name) == JoinPath(config_path(name), <<"favicon.ico">>)

wm_class(name) == SSB_PREFIX \o name

desktop_file_symlink(name) ==
    [base |-> "applications", name |-> name \o DESKTOP_SUFFIX, rel |-> <<>>]

desktop_file(name) ==
    JoinPath(config_path(name), <<"application-menu-item.desktop">>)

command(url, name) ==
    [program |-> "firefox",
     profile |-> profile_path(name),
     flags |-> <<"-no-remote", "-new-instance">>,
     url |-> url,
     class |-> wm_class(name)]

\* desktop_file_contents.format(...): the fields substituted into the template
Descriptor(url, name) ==
    [exists |-> TRUE,
     Name |-> name,
     Exec |-> command(url, name),
     Icon |-> favicon_path(name),
     StartupWMClass |-> wm_class(name)]

NoDescriptor ==
    [exists |-> FALSE,
     Name |-> <<>>,
     Exec |-> command(<<>>, <<>>),
     Icon |-> favicon_path(<<>>),
     StartupWMClass |-> <<>>]

\* The directory a menu entry lives in: ~/.local/share/applications
Parent(path) == [base |-> path.base, name |-> <<>>, rel |-> <<>>]

\* os.path.relpath(target, start) for a start directly below ~/.local/share:
\* one step up, then the whole of target from ~/.local/share on.
relpath(target, start) == [up |-> Len(start.rel) + 1, down |-> target]

(***************************************************************************)
(* The entry at desktop_file_symlink: nothing, a symlink or another file.  *)
(***************************************************************************)
NoEntry == [kind |-> "none", to |-> relpath(config_path(<<>>), Parent(config_path(<<>>)))]
Symlink(rel) == [kind |-> "symlink", to |-> rel]
PlainFile == [kind |-> "file", to |-> NoEntry.to]

is_symlink(entry) == entry.kind = "symlink"

\* Path.exists() of an entry that is not a symlink
exists(entry) == entry.kind = "file"

\* Path.resolve() of a symlink in directory start
resolve(entry, start) ==
    IF entry.to.up = Len(start.rel) + 1 THEN entry.to.down ELSE start

\* A launcher of some other application that uses the same menu entry name.
ForeignTarget == [base |-> "opt", name |-> <<"o">>, rel |-> <<"other.desktop">>]
ForeignSymlink == Symlink(relpath(ForeignTarget, Parent(ForeignTarget)))

(***************************************************************************)
(* The filesystem of the identity.                                         *)
(***************************************************************************)
Dirs == {"config", "profile", "chrome", "extensions", "cache2"}
ExtIds == {"uBlock0@raymondhill.net"}

EmptyLayout(entry) ==
    [dirs |-> {},
     css |-> "absent",          \* profile/chrome/userChrome.css
     js |-> "absent",           \* profile/user.js
     sentinel |-> FALSE,        \* profile/extensions/ublock_origin_installed
     xpi |-> [i \in ExtIds |-> "absent"],   \* profile/extensions/<id>.xpi
     favicon |-> "absent",      \* favicon.ico
     desc |-> NoDescriptor,     \* application-menu-item.desktop
     entry |-> entry]           \* ~/.local/share/applications/<name>.desktop

\* mkdir(parents=True, exist_ok=True) of the directory and its ancestors
Mkdir(f, ds) == [f EXCEPT !.dirs = @ \cup ds]

\* shutil.rmtree(config_path) once it has found the directory
RemoveConfigTree(f) == EmptyLayout(f.entry)

(***************************************************************************)
(* The environment: command lines, network responses, exit statuses.       *)
(***************************************************************************)
Procs == {"p1", "p2"}
Modes == {"application-menu", "run", "clean"}

\* The identity whose files fs holds, and the --url values that lead to it.
SiteName == <<"a">>
CliUrls == {<<"a">>, HTTP \o <<"a">>, HTTPS \o <<"a">>}
CliNames == {None, Some(SiteName)}

ExitCodes == {0, 1, 2}

\* The hrefs of the add-on page, in the order re.finditer yields them
XPI == <<".", "x", "p", "i">>
UBLOCK == <<"u", "b", "l", "o", "c", "k">>
AddonPages ==
    {<<>>,
     <<<<"a">> \o XPI, UBLOCK \o SLASH>>,
     <<UBLOCK \o SLASH, <<"a">> \o XPI, SLASH \o UBLOCK \o XPI>>}

\* The bytes behind the .xpi link: a zip or not, and what manifest.json holds
XpiBytes ==
    {[zip |-> FALSE, manifest |-> "missing"],
     [zip |-> TRUE, manifest |-> "missing"],
     [zip |-> TRUE, manifest |-> "no gecko id"]}
    \cup {[zip |-> TRUE, manifest |-> i] : i \in ExtIds}

\* A response has a success status or not; res.content of a favicon request
HttpStatus == {"ok", "bad"}
Body(status) == IF status = "ok" THEN "icon" ELSE "error page"

NoErr == [type |-> "none", returncode |-> 0]
Error(t) == [type |-> t, returncode |-> 0]
CalledProcessError(rc) == [type |-> "CalledProcessError", returncode |-> rc]

RECURSIVE FindLink(_)
\* the for/else over re.finditer: index of the first href that ends in .xpi
\* and contains "ublock", 0 when the loop runs to its else branch
FindLink(html) ==
    IF html = <<>> THEN 0
    ELSE IF EndsWith(Head(html), XPI) /\ Contains(Head(html), UBLOCK) THEN 1
    ELSE LET r == FindLink(Tail(html)) IN IF r = 0 THEN 0 ELSE r + 1

\* ZipFile(...), zipfile.read("manifest.json"), manifest[...]["gecko"]["id"]:
\* the exception raised, or "none"
ManifestError(bytes) ==
    IF ~bytes.zip THEN "BadZipFile"
    ELSE IF bytes.manifest \notin ExtIds THEN "KeyError"
    ELSE "none"

(***************************************************************************)
(* One invocation of the script.                                           *)
(***************************************************************************)
\* What a finished invocation leaves for the next one of its process to see
NoOutcome == [mode |-> "none", gdf |-> FALSE, ok |-> FALSE]

Outcome(r) ==
    [mode |-> r.mode,
     gdf |-> r.mode = "application-menu"
             /\ (r.err.type = "none" \/ r.at = "reload"),
     ok |-> r.err.type = "none"]

NoLocals == [ext_id |-> "", pending |-> NoErr]

IdleProc ==
    [pc |-> "idle", mode |-> "clean", url |-> <<>>, name |-> <<>>,
     err |-> NoErr, at |-> "idle", wrote |-> {}, fetched |-> {},
     pre |-> EmptyLayout(NoEntry), loc |-> NoLocals, prev |-> NoOutcome]

\* main: the first statement of the chosen mode
Entry(mode) ==
    CASE mode = "application-menu" -> "gdf_check"
      [] mode = "run" -> "css"
      [] mode = "clean" -> "clean_rmtree"

\* Variant: every mode goes on to the icon and the descriptor.
AfterProfile_register_always(mode) == "icon"

\* the statement that follows self.generate_profile() in the caller
AfterProfile(mode) == IF mode = "application-menu" THEN "icon" ELSE "launch"

Wrote(p, f) == [proc EXCEPT ![p].wrote = @ \cup {f}]
\* requests.get(u) was issued and ended with status st ("ok", "bad": a
\* non-success status, "none": no response at all)
Fetched(p, u, st) == [proc EXCEPT ![p].fetched = @ \cup {<<u, st>>}]

Goto(p, pc) == proc' = [proc EXCEPT ![p].pc = pc]

Raise(p, e) ==
    proc' = [proc EXCEPT ![p].pc = "done", ![p].err = e, ![p].at = proc[p].pc,
                         ![p].loc = NoLocals]

\* Variant: run calls generate_profile inside its try block.
RaiseFetched_inside_try(p, u, st, e) ==
    proc' = [Fetched(p, u, st) EXCEPT
                ![p].pc = IF proc[p].mode = "run" THEN "finally" ELSE "done",
                ![p].err = IF proc[p].mode = "run" THEN NoErr ELSE e,
                ![p].at = IF proc[p].mode = "run" THEN "running" ELSE proc[p].pc,
                ![p].loc = [NoLocals EXCEPT
                               !.pending = IF proc[p].mode = "run"
                                           THEN e ELSE NoErr]]

\* an exception raised by, or right after, the request for u
RaiseFetched(p, u, st, e) ==
    proc' = [Fetched(p, u, st) EXCEPT
                ![p].pc = "done", ![p].err = e, ![p].at = proc[p].pc,
                ![p].loc = NoLocals]

Return(p) ==
    proc' = [proc EXCEPT ![p].pc = "done", ![p].at = "end", ![p].loc = NoLocals]

UrlVars == <<arg_url, arg_name, ssb_url, ssb_name, stage>>

\* arg_main and main: parse the arguments, construct SsbFirefox, dispatch
Start(p, raw, nm, mode) ==
    /\ proc[p].pc \in {"idle", "done"}
    /\ \A q \in Procs : proc[q].pc \in {"idle", "done"}
    /\ LET url == normalize_url(raw)
           name == SsbName(url, nm)
       IN /\ name = SiteName
          /\ proc' = [proc EXCEPT ![p] =
                 [pc |-> Entry(mode), mode |-> mode, url |-> url, name |-> name,
                  err |-> NoErr, at |-> "running", wrote |-> {}, fetched |-> {},
                  pre |-> fs, loc |-> NoLocals,
                  prev |-> IF proc[p].pc = "done"
                           THEN Outcome(proc[p])
                           ELSE proc[p].prev]]
    /\ UNCHANGED <<fs, UrlVars>>

(***************************************************************************)
(* generate_desktop_file, up to the call of generate_profile.              *)
(***************************************************************************)
\* Variant: a symlink is accepted wherever it points.
generate_desktop_file_symlink_unresolved(p) ==
    /\ proc[p].pc = "gdf_check"
    /\ LET symlink == desktop_file_symlink(proc[p].name)
           target == desktop_file(proc[p].name)
           rel == relpath(target, Parent(symlink))
       IN IF is_symlink(fs.entry)
          THEN Goto(p, "css") /\ UNCHANGED fs
          ELSE IF exists(fs.entry)
               THEN Raise(p, Error("FileExistsError")) /\ UNCHANGED fs
               ELSE /\ fs' = [fs EXCEPT !.entry = Symlink(rel)]
                    /\ proc' = [Wrote(p, "symlink") EXCEPT ![p].pc = "css"]
    /\ UNCHANGED UrlVars

\* Variant: the symlink is (re)created whatever occupies its path.
generate_desktop_file_symlink_force(p) ==
    /\ proc[p].pc = "gdf_check"
    /\ LET symlink == desktop_file_symlink(proc[p].name)
           target == desktop_file(proc[p].name)
           rel == relpath(target, Parent(symlink))
       IN /\ fs' = [fs EXCEPT !.entry = Symlink(rel)]
          /\ proc' = [Wrote(p, "symlink") EXCEPT ![p].pc = "css"]
    /\ UNCHANGED UrlVars

\* Variant: the existing symlink is resolved strictly, its target must exist.
generate_desktop_file_symlink_strict(p) ==
    /\ proc[p].pc = "gdf_check"
    /\ LET symlink == desktop_file_symlink(proc[p].name)
           target == desktop_file(proc[p].name)
           rel == relpath(target, Parent(symlink))
       IN IF is_symlink(fs.entry)
          THEN IF resolve(fs.entry, Parent(symlink)) # target
               THEN Raise(p, Error("FileExistsError")) /\ UNCHANGED fs
               ELSE IF fs.desc.exists
                    THEN Goto(p, "css") /\ UNCHANGED fs
                    ELSE Raise(p, Error("FileNotFoundError")) /\ UNCHANGED fs
          ELSE IF exists(fs.entry)
               THEN Raise(p, Error("FileExistsError")) /\ UNCHANGED fs
               ELSE /\ fs' = [fs EXCEPT !.entry = Symlink(rel)]
                    /\ proc' = [Wrote(p, "symlink") EXCEPT ![p].pc = "css"]
    /\ UNCHANGED UrlVars

generate_desktop_file_symlink(p) ==
    /\ proc[p].pc = "gdf_check"
    /\ LET symlink == desktop_file_symlink(proc[p].name)
           target == desktop_file(proc[p].name)
           rel == relpath(target, Parent(symlink))
       IN IF is_symlink(fs.entry)
          THEN IF resolve(fs.entry, Parent(symlink)) # target
               THEN Raise(p, Error("FileExistsError")) /\ UNCHANGED fs
               ELSE Goto(p, "css") /\ UNCHANGED fs
          ELSE IF exists(fs.entry)
               THEN Raise(p, Error("FileExistsError")) /\ UNCHANGED fs
               ELSE /\ fs' = [fs EXCEPT !.entry = Symlink(rel)]
                    /\ proc' = [Wrote(p, "symlink") EXCEPT ![p].pc = "css"]
    /\ UNCHANGED UrlVars

(***************************************************************************)
(* generate_profile: make_user_css, make_user_js, install_ublock_origin.   *)
(***************************************************************************)
\* Variant: the style file is written without the test for its existence.
make_user_css_overwrite(p) ==
    /\ proc[p].pc = "css"
    /\ fs' = [Mkdir(fs, {"config", "profile", "chrome"}) EXCEPT !.css = "default"]
    /\ proc' = [Wrote(p, "css") EXCEPT ![p].pc = "js"]
    /\ UNCHANGED UrlVars

make_user_css(p) ==
    /\ proc[p].pc = "css"
    /\ IF fs.css # "absent"
       THEN Goto(p, "js") /\ UNCHANGED fs
       ELSE /\ fs' = [Mkdir(fs, {"config", "profile", "chrome"})
                         EXCEPT !.css = "default"]
            /\ proc' = [Wrote(p, "css") EXCEPT ![p].pc = "js"]
    /\ UNCHANGED UrlVars

make_user_js(p) ==
    /\ proc[p].pc = "js"
    /\ IF fs.js # "absent"
       THEN Goto(p, "ublock_catalog") /\ UNCHANGED fs
       ELSE /\ fs' = [Mkdir(fs, {"config", "profile"}) EXCEPT !.js = "default"]
            /\ proc' = [Wrote(p, "js") EXCEPT ![p].pc = "ublock_catalog"]
    /\ UNCHANGED UrlVars

\* lines 112-129: the sentinel test, the add-on page and the search for the link
install_ublock_origin_catalog(p) ==
    /\ proc[p].pc = "ublock_catalog"
    /\ IF fs.sentinel
       THEN Goto(p, AfterProfile(proc[p].mode))
       ELSE \/ \* requests.get fails to connect
               RaiseFetched(p, "catalog", "none", Error("ConnectionError"))
            \/ \E status \in HttpStatus, html \in AddonPages :
                 IF status = "bad"
                 THEN \* res.raise_for_status()
                      RaiseFetched(p, "catalog", status, Error("HTTPError"))
                 ELSE IF FindLink(html) = 0
                 THEN RaiseFetched(p, "catalog", status, Error("RuntimeError"))
                 ELSE proc' = [Fetched(p, "catalog", status) EXCEPT
                                  ![p].pc = "ublock_download"]
    /\ UNCHANGED <<fs, UrlVars>>

\* Variant: the status of the .xpi response is not looked at.
install_ublock_origin_download_unchecked(p) ==
    /\ proc[p].pc = "ublock_download"
    /\ \/ RaiseFetched(p, "package", "none", Error("ConnectionError"))
       \/ \E status \in HttpStatus, bytes \in XpiBytes :
            IF ManifestError(bytes) # "none"
            THEN RaiseFetched(p, "package", status, Error(ManifestError(bytes)))
            ELSE proc' = [Fetched(p, "package", status) EXCEPT
                             ![p].pc = "ublock_open",
                             ![p].loc.ext_id = bytes.manifest]
    /\ UNCHANGED <<fs, UrlVars>>

\* lines 132-139: the download of the .xpi and the reading of its manifest
install_ublock_origin_download(p) ==
    /\ proc[p].pc = "ublock_download"
    /\ \/ RaiseFetched(p, "package", "none", Error("ConnectionError"))
       \/ \E status \in HttpStatus, bytes \in XpiBytes :
            IF status = "bad"
            THEN \* res.raise_for_status()
                 RaiseFetched(p, "package", status, Error("HTTPError"))
            ELSE IF ManifestError(bytes) # "none"
            THEN RaiseFetched(p, "package", status, Error(ManifestError(bytes)))
            ELSE proc' = [Fetched(p, "package", status) EXCEPT
                             ![p].pc = "ublock_open",
                             ![p].loc.ext_id = bytes.manifest]
    /\ UNCHANGED <<fs, UrlVars>>

\* Variant: the sentinel is created together with the still empty payload.
install_ublock_origin_open_sentinel_first(p) ==
    /\ proc[p].pc = "ublock_open"
    /\ fs' = [Mkdir(fs, {"config", "profile", "extensions"})
                 EXCEPT !.xpi[proc[p].loc.ext_id] = "partial", !.sentinel = TRUE]
    /\ proc' = [Wrote(p, "xpi") EXCEPT ![p].pc = "ublock_write"]
    /\ UNCHANGED UrlVars

\* lines 142-144: mkdir of extensions/ and open(ublock_origin_xpi, "wb")
install_ublock_origin_open(p) ==
    /\ proc[p].pc = "ublock_open"
    /\ fs' = [Mkdir(fs, {"config", "profile", "extensions"})
                 EXCEPT !.xpi[proc[p].loc.ext_id] = "partial"]
    /\ proc' = [Wrote(p, "xpi") EXCEPT ![p].pc = "ublock_write"]
    /\ UNCHANGED UrlVars

\* line 145 and the end of the with block: the bytes reach the open file
install_ublock_origin_write(p) ==
    /\ proc[p].pc = "ublock_write"
    /\ fs' = IF fs.xpi[proc[p].loc.ext_id] = "partial"
             THEN [fs EXCEPT !.xpi[proc[p].loc.ext_id] = "complete"]
             ELSE fs
    /\ Goto(p, "ublock_sentinel")
    /\ UNCHANGED UrlVars

\* lines 147-148: the sentinel
install_ublock_origin_sentinel(p) ==
    /\ proc[p].pc = "ublock_sentinel"
    /\ IF "extensions" \in fs.dirs
       THEN /\ fs' = [fs EXCEPT !.sentinel = TRUE]
            /\ proc' = [Wrote(p, "sentinel") EXCEPT
                           ![p].pc = AfterProfile(proc[p].mode),
                           ![p].loc = NoLocals]
       ELSE Raise(p, Error("FileNotFoundError")) /\ UNCHANGED fs
    /\ UNCHANGED UrlVars

(***************************************************************************)
(* download_icon                                                           *)
(***************************************************************************)
\* Variant: the icon is fetched whether or not the file exists.
download_icon_check_always(p) ==
    /\ proc[p].pc = "icon"
    /\ fs' = Mkdir(fs, {"config"})
    /\ Goto(p, "icon_fetch")
    /\ UNCHANGED UrlVars

\* lines 151-153
download_icon_check(p) ==
    /\ proc[p].pc = "icon"
    /\ IF fs.favicon # "absent"
       THEN Goto(p, "desc") /\ UNCHANGED fs
       ELSE fs' = Mkdir(fs, {"config"}) /\ Goto(p, "icon_fetch")
    /\ UNCHANGED UrlVars

\* lines 154-159: the response is written whatever its status
download_icon_fetch(p) ==
    /\ proc[p].pc = "icon_fetch"
    /\ \/ RaiseFetched(p, "favicon", "none", Error("ConnectionError"))
          /\ UNCHANGED fs
       \/ \E status \in HttpStatus :
            IF "config" \in fs.dirs
            THEN /\ fs' = [fs EXCEPT !.favicon = Body(status)]
                 /\ proc' = [Fetched(p, "favicon", status) EXCEPT
                                ![p].pc = "desc",
                                ![p].wrote = @ \cup {"favicon"}]
            ELSE /\ RaiseFetched(p, "favicon", status, Error("FileNotFoundError"))
                 /\ UNCHANGED fs
    /\ UNCHANGED UrlVars

(***************************************************************************)
(* generate_desktop_file, lines 209-217, and reload_desktop_files.         *)
(***************************************************************************)
\* Variant: the descriptor is written only when absent, like the profile files.
generate_desktop_file_write_if_absent(p) ==
    /\ proc[p].pc = "desc"
    /\ IF fs.desc.exists
       THEN Goto(p, "reload") /\ UNCHANGED fs
       ELSE IF "config" \in fs.dirs
       THEN /\ fs' = [fs EXCEPT !.desc = Descriptor(proc[p].url, proc[p].name)]
            /\ proc' = [Wrote(p, "desc") EXCEPT ![p].pc = "reload"]
       ELSE Raise(p, Error("FileNotFoundError")) /\ UNCHANGED fs
    /\ UNCHANGED UrlVars

generate_desktop_file_write(p) ==
    /\ proc[p].pc = "desc"
    /\ IF "config" \in fs.dirs
       THEN /\ fs' = [fs EXCEPT !.desc = Descriptor(proc[p].url, proc[p].name)]
            /\ proc' = [Wrote(p, "desc") EXCEPT ![p].pc = "reload"]
       ELSE Raise(p, Error("FileNotFoundError")) /\ UNCHANGED fs
    /\ UNCHANGED UrlVars

\* Variant: a failed refresh takes the descriptor back.
reload_desktop_files_rollback(p) ==
    /\ proc[p].pc = "reload"
    /\ \E rc \in ExitCodes :
         IF rc = 0
         THEN Return(p) /\ UNCHANGED fs
         ELSE /\ Raise(p, CalledProcessError(rc))
              /\ fs' = [fs EXCEPT !.desc = NoDescriptor]
    /\ UNCHANGED UrlVars

reload_desktop_files(p) ==
    /\ proc[p].pc = "reload"
    /\ \E rc \in ExitCodes :
         IF rc = 0 THEN Return(p) ELSE Raise(p, CalledProcessError(rc))
    /\ UNCHANGED <<fs, UrlVars>>

(***************************************************************************)
(* run                                                                     *)
(***************************************************************************)
\* line 231: subprocess.check_call starts the browser
run_launch(p) ==
    /\ proc[p].pc = "launch"
    /\ Goto(p, "wait")
    /\ UNCHANGED <<fs, UrlVars>>

\* the browser, while it runs, may create the disk cache directory
browser_creates_cache(p) ==
    /\ proc[p].pc = "wait"
    /\ "cache2" \notin fs.dirs
    /\ fs' = Mkdir(fs, {"config", "profile", "cache2"})
    /\ UNCHANGED <<proc, UrlVars>>

\* line 231: the wait ends: exit status 0, another exit status, or an interrupt
run_wait(p) ==
    /\ proc[p].pc = "wait"
    /\ \/ \E rc \in ExitCodes :
            proc' = [proc EXCEPT ![p].pc = "finally",
                        ![p].loc.pending =
                            IF rc = 0 THEN NoErr ELSE CalledProcessError(rc)]
       \/ proc' = [proc EXCEPT ![p].pc = "finally",
                      ![p].loc.pending = Error("KeyboardInterrupt")]
    /\ UNCHANGED <<fs, UrlVars>>

\* Variant: the cache is removed after a clean exit only (no finally clause).
run_finally_on_success_only(p) ==
    /\ proc[p].pc = "finally"
    /\ IF proc[p].loc.pending # NoErr
       THEN /\ proc' = [proc EXCEPT ![p].pc = "done",
                           ![p].err = proc[p].loc.pending, ![p].at = "wait"]
            /\ UNCHANGED fs
       ELSE IF "cache2" \in fs.dirs
       THEN /\ fs' = [fs EXCEPT !.dirs = @ \ {"cache2"}]
            /\ proc' = [Wrote(p, "cache2") EXCEPT
                           ![p].pc = "done", ![p].at = "end"]
       ELSE /\ proc' = [proc EXCEPT ![p].pc = "done",
                           ![p].err = Error("FileNotFoundError"),
                           ![p].at = "finally"]
            /\ UNCHANGED fs
    /\ UNCHANGED UrlVars

\* lines 232-233: shutil.rmtree(cache2) raises when the directory is missing,
\* and that exception takes the place of the one that was propagating
run_finally(p) ==
    /\ proc[p].pc = "finally"
    /\ IF "cache2" \in fs.dirs
       THEN /\ fs' = [fs EXCEPT !.dirs = @ \ {"cache2"}]
            /\ proc' = [Wrote(p, "cache2") EXCEPT
                           ![p].pc = "done",
                           ![p].err = proc[p].loc.pending,
                           ![p].at = IF proc[p].loc.pending = NoErr
                                     THEN "end" ELSE "wait"]
       ELSE /\ proc' = [proc EXCEPT ![p].pc = "done",
                           ![p].err = Error("FileNotFoundError"),
                           ![p].at = "finally"]
            /\ UNCHANGED fs
    /\ UNCHANGED UrlVars

(***************************************************************************)
(* clean                                                                   *)
(***************************************************************************)
\* Variant: the removal of the tree is outside the suppress block.
clean_rmtree_unsuppressed(p) ==
    /\ proc[p].pc = "clean_rmtree"
    /\ IF "config" \in fs.dirs
       THEN /\ fs' = RemoveConfigTree(fs)
            /\ proc' = [Wrote(p, "config") EXCEPT ![p].pc = "clean_remove"]
       ELSE Raise(p, Error("FileNotFoundError")) /\ UNCHANGED fs
    /\ UNCHANGED UrlVars

\* Variant: only the profile directory is removed, not the whole config tree.
clean_rmtree_profile_only(p) ==
    /\ proc[p].pc = "clean_rmtree"
    /\ IF "profile" \in fs.dirs
       THEN /\ fs' = [RemoveConfigTree(fs) EXCEPT
                         !.dirs = {"config"}, !.favicon = fs.favicon,
                         !.desc = fs.desc]
            /\ proc' = [Wrote(p, "profile") EXCEPT ![p].pc = "clean_remove"]
       ELSE Goto(p, "clean_remove") /\ UNCHANGED fs
    /\ UNCHANGED UrlVars

\* lines 223-224
clean_rmtree(p) ==
    /\ proc[p].pc = "clean_rmtree"
    /\ IF "config" \in fs.dirs
       THEN /\ fs' = RemoveConfigTree(fs)
            /\ proc' = [Wrote(p, "config") EXCEPT ![p].pc = "clean_remove"]
       ELSE Goto(p, "clean_remove") /\ UNCHANGED fs
    /\ UNCHANGED UrlVars

\* Variant: clean also unlinks the menu entry.
clean_remove_with_symlink(p) ==
    /\ proc[p].pc = "clean_remove"
    /\ fs' = [fs EXCEPT !.desc = NoDescriptor, !.entry = NoEntry]
    /\ proc' = [proc EXCEPT
                   ![p].pc = "done", ![p].at = "end",
                   ![p].wrote = @ \cup {"desc", "symlink"}]
    /\ UNCHANGED UrlVars

\* lines 225-226
clean_remove(p) ==
    /\ proc[p].pc = "clean_remove"
    /\ IF fs.desc.exists
       THEN /\ fs' = [fs EXCEPT !.desc = NoDescriptor]
            /\ proc' = [Wrote(p, "desc") EXCEPT
                           ![p].pc = "done", ![p].at = "end"]
       ELSE Return(p) /\ UNCHANGED fs
    /\ UNCHANGED UrlVars

(***************************************************************************)
(* The environment of an invocation.                                       *)
(***************************************************************************)
Running(p) == proc[p].pc \notin {"idle", "done"}

\* the script is killed: no except or finally clause runs
Crash(p) ==
    /\ Running(p)
    /\ proc' = [proc EXCEPT ![p].pc = "done", ![p].err = Error("killed"),
                            ![p].at = proc[p].pc]
    /\ UNCHANGED <<fs, UrlVars>>

\* an invocation that has ended, once the operator has turned to other things
Retire(r) == IF r.pc = "done" THEN [IdleProc EXCEPT !.prev = Outcome(r)] ELSE r

\* between invocations the operator customises a file of the profile
OperatorEdit(f) ==
    /\ f \in {"css", "js"}
    /\ \A p \in Procs : ~Running(p)
    /\ fs[f] \notin {"absent", "custom"}
    /\ fs' = [fs EXCEPT ![f] = "custom"]
    /\ proc' = [p \in Procs |-> Retire(proc[p])]
    /\ UNCHANGED UrlVars

(***************************************************************************)
(* From the command line to the identity: type=normalize_url, then         *)
(* SsbFirefox(args.url, args.name).                                        *)
(***************************************************************************)
Chunks == {HTTP, HTTPS, HTTP_, SLASH, <<"a">>, <<"b", ".", "c">>}

RECURSIVE UrlsUpTo(_)
UrlsUpTo(n) ==
    IF n = 0 THEN {<<>>}
    ELSE LET shorter == UrlsUpTo(n - 1)
         IN shorter \cup {c \o u : c \in Chunks, u \in shorter}

parse_args ==
    /\ stage = "argv"
    /\ ssb_url' = normalize_url(arg_url)
    /\ stage' = "parsed"
    /\ UNCHANGED <<fs, proc, arg_url, arg_name, ssb_name>>

construct ==
    /\ stage = "parsed"
    /\ ssb_name' = SsbName(ssb_url, arg_name)
    /\ stage' = "constructed"
    /\ UNCHANGED <<fs, proc, arg_url, arg_name, ssb_url>>

(***************************************************************************)
(* Specifications.                                                         *)
(***************************************************************************)
Init ==
    /\ fs \in {EmptyLayout(e) : e \in {NoEntry, ForeignSymlink, PlainFile}}
    /\ proc = [p \in Procs |-> IdleProc]
    /\ arg_url = <<>>
    /\ arg_name = None
    /\ ssb_url = <<>>
    /\ ssb_name = <<>>
    /\ stage = "off"

Step(p) ==
    \/ \E raw \in CliUrls, nm \in CliNames, mode \in Modes : Start(p, raw, nm, mode)
    \/ generate_desktop_file_symlink(p)
    \/ make_user_css(p)
    \/ make_user_js(p)
    \/ install_ublock_origin_catalog(p)
    \/ install_ublock_origin_download(p)
    \/ install_ublock_origin_open(p)
    \/ install_ublock_origin_write(p)
    \/ install_ublock_origin_sentinel(p)
    \/ download_icon_check(p)
    \/ download_icon_fetch(p)
    \/ generate_desktop_file_write(p)
    \/ reload_desktop_files(p)
    \/ run_launch(p)
    \/ browser_creates_cache(p)
    \/ run_wait(p)
    \/ run_finally(p)
    \/ clean_rmtree(p)
    \/ clean_remove(p)
    \/ Crash(p)

\* invocations one after the other, all issued from one shell
Next ==
    \/ Step("p1")
    \/ \E f \in {"css", "js"} : OperatorEdit(f)

Spec == Init /\ [][Next]_vars

InitArgs ==
    /\ fs = EmptyLayout(NoEntry)
    /\ proc = [p \in Procs |-> IdleProc]
    /\ arg_url \in UrlsUpTo(MaxChunks)
    /\ arg_name \in {None, Some(<<"m", "/", "n">>)}
    /\ ssb_url = <<>>
    /\ ssb_name = <<>>
    /\ stage = "argv"

NextArgs == parse_args \/ construct

SpecArgs == InitArgs /\ [][NextArgs]_vars

\* arg_main and main of an invocation issued while another one may be under
\* way: the script takes no lock, so nothing is awaited
StartConcurrent(p, raw, nm, mode) ==
    /\ proc[p].pc = "idle"
    /\ LET url == normalize_url(raw)
           name == SsbName(url, nm)
       IN /\ name = SiteName
          /\ proc' = [proc EXCEPT ![p] =
                 [pc |-> Entry(mode), mode |-> mode, url |-> url, name |-> name,
                  err |-> NoErr, at |-> "running", wrote |-> {}, fetched |-> {},
                  pre |-> fs, loc |-> NoLocals, prev |-> proc[p].prev]]
    /\ UNCHANGED <<fs, UrlVars>>

\* the statements of --mode application-menu
RegisterStep(p) ==
    \/ generate_desktop_file_symlink(p)
    \/ make_user_css(p)
    \/ make_user_js(p)
    \/ install_ublock_origin_catalog(p)
    \/ install_ublock_origin_download(p)
    \/ install_ublock_origin_open(p)
    \/ install_ublock_origin_write(p)
    \/ install_ublock_origin_sentinel(p)
    \/ download_icon_check(p)
    \/ download_icon_fetch(p)
    \/ generate_desktop_file_write(p)
    \/ reload_desktop_files(p)

\* the statements of --mode clean
CleanStep(p) == clean_rmtree(p) \/ clean_remove(p)

\* one register and one clean of the same identity, from two shells
NextConc ==
    \/ \E raw \in CliUrls, nm \in CliNames :
          StartConcurrent("p1", raw, nm, "application-menu")
    \/ \E raw \in CliUrls, nm \in CliNames :
          StartConcurrent("p2", raw, nm, "clean")
    \/ RegisterStep("p1")
    \/ CleanStep("p2")

SpecConc == Init /\ [][NextConc]_vars

(***************************************************************************)
(* Shorthands of the properties.                                           *)
(***************************************************************************)
Target == desktop_file(SiteName)
MenuDir == Parent(desktop_file_symlink(SiteName))
OwnSymlink == Symlink(relpath(Target, MenuDir))

\* the entry is a symlink that resolves elsewhere, or is not a symlink
Foreign(entry) ==
    \/ is_symlink(entry) /\ resolve(entry, MenuDir) # Target
    \/ exists(entry)

Registering(p) == proc[p].pc # "idle" /\ proc[p].mode = "application-menu"
Finished(p) == proc[p].pc = "done"
Killed(p) == proc[p].err.type = "killed"

\* generate_desktop_file has returned to main
GdfReturned(p) ==
    /\ Registering(p)
    /\ \/ proc[p].pc = "reload"
       \/ Finished(p) /\ proc[p].at \in {"reload", "end"}

\* generate_desktop_file has raised an exception
GdfRaised(p) ==
    /\ Registering(p)
    /\ Finished(p)
    /\ ~Killed(p)
    /\ proc[p].at \notin {"reload", "end"}

(***************************************************************************)
(* C1.  A register invocation that finds a foreign entry at                *)
(* desktop_file_symlink (a symlink resolving elsewhere, or a file that is  *)
(* not a symlink) gets no further than the test: it ends with              *)
(* FileExistsError, the whole filesystem is as it was when the invocation  *)
(* started, nothing was written and no request was sent.                   *)
(***************************************************************************)
C1_ForeignEntryRefused ==
    \A p \in Procs :
        (Registering(p) /\ Foreign(proc[p].pre.entry)) =>
            /\ proc[p].pc \in {"gdf_check", "done"}
            /\ fs = proc[p].pre
            /\ proc[p].wrote = {}
            /\ proc[p].fetched = {}
            /\ Finished(p) =>
                 /\ proc[p].at = "gdf_check"
                 /\ Killed(p) \/ proc[p].err = Error("FileExistsError")

\* a register refused although an earlier run had left a profile behind
C1_Witness ==
    \E p \in Procs :
        /\ Registering(p) /\ Finished(p)
        /\ proc[p].pre.entry = ForeignSymlink
        /\ proc[p].pre.css # "absent"
        /\ proc[p].err = Error("FileExistsError")

(***************************************************************************)
(* C2.  No step of register, run or clean turns an entry that is absent or *)
(* resolves to desktop_file into a foreign one, and no step changes a      *)
(* foreign entry.  With the initial state this gives: from no entry, the   *)
(* symlink is absent or resolves to desktop_file; a foreign entry is never *)
(* overwritten, retargeted or removed.                                     *)
(***************************************************************************)
C2_LauncherEntry ==
    [][/\ Foreign(fs.entry) => fs'.entry = fs.entry
       /\ ~Foreign(fs.entry) =>
            \/ fs'.entry = NoEntry /\ fs.entry = NoEntry
            \/ is_symlink(fs'.entry) /\ resolve(fs'.entry, MenuDir) = Target]_vars

\* the symlink made by a register is still in place, dangling, after a clean
C2_Witness ==
    \E p \in Procs :
        /\ Finished(p) /\ proc[p].mode = "clean"
        /\ proc[p].prev.mode = "application-menu" /\ proc[p].prev.ok
        /\ fs.entry = OwnSymlink
        /\ ~fs.desc.exists

(***************************************************************************)
(* C3.  The sentinel exists only beside a completely written payload, in   *)
(* every state (crashes and failed attempts included); an invocation that  *)
(* found no sentinel and stopped inside install_ublock_origin before the   *)
(* last statement leaves no sentinel.                                      *)
(***************************************************************************)
InstallSteps ==
    {"ublock_catalog", "ublock_download", "ublock_open", "ublock_write",
     "ublock_sentinel"}

C3_SentinelLast ==
    /\ fs.sentinel => \E i \in ExtIds : fs.xpi[i] = "complete"
    /\ \A p \in Procs :
         (/\ proc[p].mode # "clean"
          /\ ~proc[p].pre.sentinel
          /\ \/ proc[p].pc \in InstallSteps
             \/ Finished(p) /\ proc[p].at \in InstallSteps)
         => ~fs.sentinel

\* killed after the payload was written and before the sentinel was created
C3_Witness ==
    \E p \in Procs :
        /\ Finished(p) /\ Killed(p) /\ proc[p].at = "ublock_sentinel"
        /\ fs.xpi["uBlock0@raymondhill.net"] = "complete"
        /\ ~fs.sentinel

(***************************************************************************)
(* C4.  A run invocation that has launched the browser and then ends (the  *)
(* browser exits with status zero or not, or the wait is interrupted) has  *)
(* passed through the removal of profile/cache2, and cache2 does not exist *)
(* when it ends.                                                           *)
(***************************************************************************)
C4_CacheRemoved ==
    \A p \in Procs :
        (/\ proc[p].mode = "run" /\ Finished(p) /\ ~Killed(p)
         /\ proc[p].at \in {"wait", "finally", "end"})
        => /\ "cache2" \notin fs.dirs
           /\ proc[p].err.type # "FileNotFoundError" => "cache2" \in proc[p].wrote

\* the browser exited with an error status and the cache was removed
C4_Witness ==
    \E p \in Procs :
        /\ proc[p].mode = "run" /\ Finished(p)
        /\ proc[p].err.type = "CalledProcessError"
        /\ "cache2" \in proc[p].wrote
        /\ "cache2" \notin fs.dirs

(***************************************************************************)
(* C5.  When the browser started by run exits with a non-zero status, run  *)
(* ends with the CalledProcessError that carries this status, whether      *)
(* profile/cache2 exists at that moment or not; and a non-zero exit of     *)
(* update-desktop-database ends register with its CalledProcessError.      *)
(***************************************************************************)
C5_ProcessErrorPropagated ==
    \A p \in Procs :
        /\ (/\ proc[p].mode = "run" /\ Finished(p) /\ ~Killed(p)
            /\ proc[p].loc.pending.type = "CalledProcessError")
           => proc[p].err = proc[p].loc.pending
        /\ (Registering(p) /\ Finished(p) /\ ~Killed(p) /\ proc[p].at = "reload")
           => /\ proc[p].err.type = "CalledProcessError"
              /\ proc[p].err.returncode # 0

(***************************************************************************)
(* C6.  generate_desktop_file on an empty layout creates the symlink to    *)
(* desktop_file; called again right after a call that returned, it raises  *)
(* no error, leaves the symlink as it found it (no write to it), and       *)
(* writes the descriptor anew with the name, command line, icon path and   *)
(* window class of this call.                                              *)
(***************************************************************************)
SecondCall(p) ==
    /\ Registering(p)
    /\ proc[p].prev.mode = "application-menu"
    /\ proc[p].prev.gdf

C6_RegisterTwice ==
    \A p \in Procs :
        /\ (GdfReturned(p) /\ proc[p].pre = EmptyLayout(NoEntry))
           => /\ fs.entry = OwnSymlink
              /\ resolve(fs.entry, MenuDir) = Target
              /\ "symlink" \in proc[p].wrote
        /\ SecondCall(p)
           => /\ ~GdfRaised(p)
              /\ proc[p].pre.entry = OwnSymlink
              /\ fs.entry = OwnSymlink
              /\ "symlink" \notin proc[p].wrote
              /\ GdfReturned(p) =>
                   /\ "desc" \in proc[p].wrote
                   /\ fs.desc = Descriptor(proc[p].url, proc[p].name)

\* the second call has returned and replaced a descriptor for another url
C6_Witness ==
    \E p \in Procs :
        /\ SecondCall(p) /\ proc[p].pc = "reload"
        /\ proc[p].pre.desc.exists
        /\ proc[p].pre.desc # fs.desc
        /\ fs.desc = Descriptor(HTTPS \o SiteName, SiteName)

(***************************************************************************)
(* C7.  No step of a register or run invocation writes userChrome.css or   *)
(* user.js when that file exists (its content stays, and no write to it is *)
(* recorded), each file on its own; an invocation that follows one that    *)
(* completed generate_profile writes neither file.                         *)
(***************************************************************************)
ProfileFiles == {"css", "js"}

C7_ProfileFilesKept ==
    /\ [](\A p \in Procs :
            (/\ proc[p].pc # "idle" /\ proc[p].mode # "clean"
             /\ proc[p].prev.ok /\ proc[p].prev.mode \in {"application-menu", "run"})
            => proc[p].wrote \cap ProfileFiles = {})
    /\ [][\A p \in Procs : \A f \in ProfileFiles :
            (/\ Running(p) /\ proc[p].mode # "clean"
             /\ proc'[p] # proc[p]
             /\ fs[f] # "absent")
            => /\ fs'[f] = fs[f]
               /\ f \in proc'[p].wrote => f \in proc[p].wrote]_vars

\* user.js is created beside a userChrome.css the operator has customised
C7_Witness ==
    \E p \in Procs :
        /\ proc[p].pc = "ublock_catalog"
        /\ proc[p].pre.css = "custom" /\ fs.css = "custom"
        /\ proc[p].pre.js = "absent" /\ fs.js = "default"
        /\ proc[p].wrote \cap ProfileFiles = {"js"}

(***************************************************************************)
(* C8.  As claimed: a non-success status of the add-on page, the .xpi or   *)
(* the favicon response ends the invocation with an HTTP error at that     *)
(* request, which is issued once, and nothing that follows the request is  *)
(* done (the favicon response is not written, register writes no           *)
(* descriptor).                                                            *)
(***************************************************************************)
Requests == {"catalog", "package", "favicon"}

FetchStep(u) ==
    CASE u = "catalog" -> "ublock_catalog"
      [] u = "package" -> "ublock_download"
      [] u = "favicon" -> "icon_fetch"

\* what is written after the response to u has arrived
WrittenAfter(u) ==
    CASE u = "catalog" -> {"xpi", "sentinel", "favicon", "desc"}
      [] u = "package" -> {"xpi", "sentinel", "favicon", "desc"}
      [] u = "favicon" -> {"favicon", "desc"}

Once(p, u) == Cardinality({st \in {"ok", "bad", "none"} : <<u, st>> \in proc[p].fetched}) <= 1

FatalAt(p, u) ==
    /\ Finished(p)
    /\ proc[p].at = FetchStep(u)
    /\ proc[p].err = Error("HTTPError")
    /\ proc[p].wrote \cap WrittenAfter(u) = {}

C8_FetchFailureFatal ==
    \A p \in Procs : \A u \in Requests :
        /\ Once(p, u)
        /\ <<u, "bad">> \in proc[p].fetched => FatalAt(p, u)

(***************************************************************************)
(* C8, amended.  A non-success status of the add-on page or of the .xpi    *)
(* response ends the invocation with an HTTP error at that request, and    *)
(* nothing that follows it is done; no request is issued twice.  A         *)
(* non-success status of the favicon response is not an error: the body is *)
(* written to favicon.ico, and register goes on to write the descriptor.   *)
(***************************************************************************)
C8_CheckedFetchesFatal ==
    \A p \in Procs :
        /\ \A u \in Requests : Once(p, u)
        /\ \A u \in {"catalog", "package"} :
             <<u, "bad">> \in proc[p].fetched => FatalAt(p, u)
        /\ <<"favicon", "bad">> \in proc[p].fetched
           => /\ fs.favicon = "error page"
              /\ "favicon" \in proc[p].wrote
              /\ ~GdfRaised(p)
              /\ GdfReturned(p) => "desc" \in proc[p].wrote

\* register stopped by the status of the .xpi response, after the add-on page
C8_Witness ==
    \E p \in Procs :
        /\ Registering(p) /\ Finished(p)
        /\ proc[p].fetched = {<<"catalog", "ok">>, <<"package", "bad">>}
        /\ proc[p].err = Error("HTTPError")
        /\ ~fs.desc.exists

(***************************************************************************)
(* C9.  As claimed: without --name the name is the url with one leading    *)
(* http:// or https:// removed and then every / replaced by _ (a scheme    *)
(* that is not at the start stays, with underscores for its slashes); with *)
(* --name the name is that value.                                          *)
(***************************************************************************)
StripLeadingScheme(url) ==
    IF StartsWith(url, HTTP) THEN SubSeq(url, Len(HTTP) + 1, Len(url))
    ELSE IF StartsWith(url, HTTPS) THEN SubSeq(url, Len(HTTPS) + 1, Len(url))
    ELSE url

C9_NameStripsLeadingScheme ==
    stage = "constructed" =>
        ssb_name = IF arg_name.given
                   THEN arg_name.value
                   ELSE Replace(StripLeadingScheme(ssb_url), SLASH, UNDERSCORE)

(***************************************************************************)
(* C10.  As claimed: normalize_url returns a url that starts with http://  *)
(* or https:// unchanged, returns every other url (those that merely start *)
(* with the letters http included) with https:// prepended once, and is    *)
(* idempotent.                                                             *)
(***************************************************************************)
HasScheme(url) == StartsWith(url, HTTP) \/ StartsWith(url, HTTPS)

C10_NormalizeBySchemePrefix ==
    stage \in {"parsed", "constructed"} =>
        /\ ssb_url = IF HasScheme(arg_url) THEN arg_url ELSE HTTPS \o arg_url
        /\ normalize_url(ssb_url) = ssb_url

(***************************************************************************)
(* C11.  clean never fails because a path is absent.  A clean invocation   *)
(* that is not killed ends without an error.  On an identity that has no   *)
(* config tree and no descriptor it changes nothing.  A clean that follows *)
(* a clean changes nothing either: cleaning again after a register gives   *)
(* the result of cleaning once.                                            *)
(***************************************************************************)
Cleaning(p) == proc[p].pc # "idle" /\ proc[p].mode = "clean"

C11_CleanNeverFails ==
    \A p \in Procs :
        Cleaning(p) =>
            /\ Finished(p) /\ ~Killed(p)
                   => proc[p].err = NoErr /\ proc[p].at = "end"
            /\ "config" \notin proc[p].pre.dirs /\ ~proc[p].pre.desc.exists
                   => fs = proc[p].pre /\ proc[p].wrote = {}
            /\ proc[p].prev.mode = "clean" /\ proc[p].prev.ok
                   => fs = proc[p].pre /\ proc[p].wrote = {}

\* a second clean in a row, after a register, has ended
C11_Witness ==
    \E p \in Procs :
        /\ Cleaning(p) /\ Finished(p)
        /\ proc[p].at = "end"
        /\ proc[p].err = NoErr
        /\ proc[p].prev.mode = "clean" /\ proc[p].prev.ok
        /\ fs = EmptyLayout(OwnSymlink)
        /\ proc[p].pre = fs

(***************************************************************************)
(* C12.  clean removes the whole config tree, the descriptor with it, and  *)
(* leaves the menu entry as it was: when a clean invocation has ended      *)
(* normally nothing of the tree exists and the entry is the one the        *)
(* invocation found.  After a register that returned, the entry is the     *)
(* symlink to the descriptor, which now dangles.                           *)
(***************************************************************************)
C12_CleanLeavesSymlink ==
    \A p \in Procs :
        Cleaning(p) =>
            /\ fs.entry = proc[p].pre.entry
            /\ "symlink" \notin proc[p].wrote
            /\ Finished(p) /\ ~Killed(p)
                   => /\ fs = EmptyLayout(proc[p].pre.entry)
                      /\ proc[p].prev.gdf
                            => /\ fs.entry = OwnSymlink
                               /\ resolve(fs.entry, MenuDir) = Target
                               /\ ~fs.desc.exists
                               /\ "config" \notin fs.dirs

\* a clean after a register that returned has removed the tree it found
C12_Witness ==
    \E p \in Procs :
        /\ Cleaning(p) /\ Finished(p)
        /\ proc[p].at = "end"
        /\ proc[p].prev.gdf
        /\ proc[p].pre.desc.exists
        /\ proc[p].pre.favicon # "absent"
        /\ proc[p].pre.sentinel
        /\ "config" \in proc[p].wrote
        /\ fs = EmptyLayout(OwnSymlink)

(***************************************************************************)
(* C13.  download_icon is idempotent.  A register invocation that finds    *)
(* favicon.ico in place, whatever its content, sends no request for the    *)
(* icon and never writes the file: it stays as it was.  When the file is   *)
(* absent and download_icon has returned, the icon was requested and the   *)
(* response was written.                                                   *)
(***************************************************************************)
IconRequested(p) == \E st \in {"ok", "bad", "none"} : <<"favicon", st>> \in proc[p].fetched

C13_IconFetchedOnlyWhenAbsent ==
    \A p \in Procs :
        Registering(p) =>
            /\ proc[p].pre.favicon # "absent"
                   => /\ ~IconRequested(p)
                      /\ "favicon" \notin proc[p].wrote
                      /\ fs.favicon = proc[p].pre.favicon
            /\ proc[p].pre.favicon = "absent" /\ GdfReturned(p)
                   => /\ "favicon" \in proc[p].wrote
                      /\ \E st \in HttpStatus :
                            /\ <<"favicon", st>> \in proc[p].fetched
                            /\ fs.favicon = Body(st)

\* download_icon has returned without a request: the file held an error page
C13_Witness ==
    \E p \in Procs :
        /\ Registering(p) /\ proc[p].pc = "desc"
        /\ proc[p].pre.favicon = "error page"
        /\ fs.favicon = "error page"
        /\ ~IconRequested(p)

(***************************************************************************)
(* C14.  run never creates, modifies or removes the menu entry, the        *)
(* descriptor or the favicon.  All it writes lies under profile_path: the  *)
(* two preference files, the extension payload, the sentinel and cache2;   *)
(* outside of it, it may only create the directory config_path on the way  *)
(* to profile_path.  It sends no request for the icon.                     *)
(***************************************************************************)
RunMode(p) == proc[p].pc # "idle" /\ proc[p].mode = "run"

C14_RunTouchesProfileOnly ==
    \A p \in Procs :
        RunMode(p) =>
            /\ fs.entry = proc[p].pre.entry
            /\ fs.desc = proc[p].pre.desc
            /\ fs.favicon = proc[p].pre.favicon
            /\ proc[p].wrote \subseteq {"css", "js", "xpi", "sentinel", "cache2"}
            /\ ~IconRequested(p)
            /\ proc[p].pc \notin {"gdf_check", "icon", "icon_fetch", "desc", "reload"}

\* a run on a registered identity has ended after removing cache2
C14_Witness ==
    \E p \in Procs :
        /\ RunMode(p) /\ Finished(p)
        /\ proc[p].at = "end"
        /\ "cache2" \in proc[p].wrote
        /\ fs.entry = OwnSymlink
        /\ fs.desc.exists
        /\ fs.favicon # "absent"

(***************************************************************************)
(* C15.  In a register invocation the menu symlink is created only after   *)
(* generate_profile and download_icon have both returned: while the        *)
(* invocation is still in one of their steps, or has ended with an         *)
(* exception raised in one of them, the symlink it did not find at its     *)
(* start does not exist.                                                   *)
(***************************************************************************)
ProfileAndIconSteps == InstallSteps \cup {"css", "js", "icon", "icon_fetch"}

C15_SymlinkAfterProfileAndIcon ==
    \A p \in Procs :
        /\ Registering(p)
        /\ ~is_symlink(proc[p].pre.entry)
        /\ \/ proc[p].pc \in ProfileAndIconSteps
           \/ Finished(p) /\ ~Killed(p) /\ proc[p].at \in ProfileAndIconSteps
        => /\ ~is_symlink(fs.entry)
           /\ "symlink" \notin proc[p].wrote

(***************************************************************************)
(* C17.  run starts the browser only after generate_profile has returned:  *)
(* when the browser is about to start, and while it runs,                  *)
(* userChrome.css, user.js and the sentinel exist.  A run that ends with   *)
(* an exception of generate_profile never reached the start of the browser *)
(* and did not attempt to remove cache2.                                   *)
(***************************************************************************)
ProfileSteps == InstallSteps \cup {"css", "js"}

ProfileComplete == fs.css # "absent" /\ fs.js # "absent" /\ fs.sentinel

C17_BrowserAfterProfile ==
    \A p \in Procs :
        RunMode(p) =>
            /\ proc[p].pc \in {"launch", "wait", "finally"} => ProfileComplete
            /\ Finished(p) /\ ~Killed(p) /\ proc[p].at \notin ProfileSteps
                   => ProfileComplete
            /\ Finished(p) /\ ~Killed(p) /\ proc[p].at \in ProfileSteps
                   => /\ ~fs.sentinel
                      /\ "cache2" \notin proc[p].wrote
                      /\ proc[p].loc.pending = NoErr
                      /\ proc[p].err.type \in {"HTTPError", "ConnectionError",
                                               "RuntimeError", "BadZipFile",
                                               "KeyError"}

\* a run has ended with the failure of the catalog request
C17_Witness ==
    \E p \in Procs :
        /\ RunMode(p) /\ Finished(p)
        /\ proc[p].at = "ublock_catalog"
        /\ proc[p].err = Error("HTTPError")
        /\ <<"catalog", "bad">> \in proc[p].fetched
        /\ fs.css # "absent" /\ fs.js # "absent"
        /\ ~fs.sentinel

(***************************************************************************)
(* C18.  In a register invocation the menu refresh is invoked only after   *)
(* generate_desktop_file has returned: the symlink is in place and the     *)
(* descriptor of this invocation is written.  When the refresh exits with  *)
(* a non-zero status the invocation fails with CalledProcessError and      *)
(* nothing is taken back: the symlink, the descriptor, the profile and the *)
(* favicon remain.                                                         *)
(***************************************************************************)
C18_RefreshAfterDescriptor ==
    \A p \in Procs :
        Registering(p) =>
            /\ proc[p].pc = "reload" \/ (Finished(p) /\ proc[p].at \in {"reload", "end"})
                   => /\ fs.entry = OwnSymlink
                      /\ fs.desc = Descriptor(proc[p].url, proc[p].name)
                      /\ "desc" \in proc[p].wrote
                      /\ ProfileComplete
                      /\ fs.favicon # "absent"
            /\ Finished(p) /\ proc[p].err.type = "CalledProcessError"
                   => /\ proc[p].at = "reload"
                      /\ proc[p].err.returncode # 0

\* the refresh has failed at the end of a register on an empty layout
C18_Witness ==
    \E p \in Procs :
        /\ Registering(p) /\ Finished(p)
        /\ proc[p].at = "reload"
        /\ proc[p].err = CalledProcessError(2)
        /\ proc[p].pre = EmptyLayout(NoEntry)
        /\ {"symlink", "css", "js", "sentinel", "favicon", "desc"} \subseteq proc[p].wrote
        /\ fs.desc.exists

(***************************************************************************)
(* C19.  A run whose profile was materialised and whose browser exits with *)
(* status zero ends without an error, whether or not cache2 exists when    *)
(* the browser has exited.                                                 *)
(***************************************************************************)
C19_RunEndsCleanly ==
    \A p \in Procs :
        /\ RunMode(p) /\ Finished(p) /\ ~Killed(p)
        /\ proc[p].at \notin ProfileSteps
        /\ proc[p].loc.pending = NoErr
        => proc[p].err = NoErr

(***************************************************************************)
(* C20.  A register that follows a register and a clean finds the dangling *)
(* symlink of the identity.  Its test of the symlink raises nothing, it    *)
(* keeps the symlink without writing it, and when generate_desktop_file    *)
(* has returned                                                            *)
(* the config tree is the one a single register leaves on an empty layout: *)
(* the two default preference files, the payload, the sentinel, the        *)
(* favicon as it was answered, and the descriptor of the invocation.       *)
(***************************************************************************)
\* the layout that generate_desktop_file of invocation p leaves behind
Registered(p) ==
    {[dirs |-> {"config", "profile", "chrome", "extensions"},
      css |-> "default",
      js |-> "default",
      sentinel |-> TRUE,
      xpi |-> [i \in ExtIds |-> "complete"],
      favicon |-> Body(st),
      desc |-> Descriptor(proc[p].url, proc[p].name),
      entry |-> OwnSymlink] : st \in {t \in HttpStatus : <<"favicon", t>> \in proc[p].fetched}}

AfterRegisterAndClean(p) ==
    /\ Registering(p)
    /\ proc[p].prev.mode = "clean" /\ proc[p].prev.ok
    /\ proc[p].pre = EmptyLayout(OwnSymlink)

C20_RegisterAfterClean ==
    \A p \in Procs :
        /\ AfterRegisterAndClean(p)
               => /\ proc[p].err.type # "FileExistsError"
                  /\ Finished(p) /\ ~Killed(p) => proc[p].at # "gdf_check"
                  /\ "symlink" \notin proc[p].wrote
                  /\ fs.entry = OwnSymlink
                  /\ GdfReturned(p) => fs \in Registered(p)
        /\ Registering(p) /\ proc[p].pre = EmptyLayout(NoEntry) /\ GdfReturned(p)
               => fs \in Registered(p)

\* the register after register and clean has written the descriptor again
C20_Witness ==
    \E p \in Procs :
        /\ AfterRegisterAndClean(p)
        /\ proc[p].pc = "reload"
        /\ resolve(proc[p].pre.entry, MenuDir) = Target
        /\ ~proc[p].pre.desc.exists
        /\ {"css", "js", "sentinel", "favicon", "desc"} \subseteq proc[p].wrote
        /\ fs \in Registered(p)

(***************************************************************************)
(* C16.  A register and a clean of the same identity that run at the same  *)
(* time are not coordinated.  When both have ended without an error, the   *)
(* layout is the one register builds with only the descriptor missing      *)
(* (profile files, payload, sentinel, favicon and symlink exist) exactly   *)
(* when clean's removal of the tree found nothing to remove and its        *)
(* removal of the descriptor removed the one register had written; clean   *)
(* had then started before the descriptor existed, and the layout is       *)
(* neither the one of register then clean nor the one of clean then        *)
(* register.                                                               *)
(***************************************************************************)
BothEndedWithoutError(r, c) ==
    /\ Registering(r) /\ Finished(r) /\ proc[r].err = NoErr
    /\ Cleaning(c) /\ Finished(c) /\ proc[c].err = NoErr

RegisteredWithoutDescriptor(r) ==
    {[f EXCEPT !.desc = NoDescriptor] : f \in Registered(r)}

C16_RegisterCleanRace ==
    \A r, c \in Procs :
        BothEndedWithoutError(r, c) =>
            /\ fs \in RegisteredWithoutDescriptor(r)
                   <=> "config" \notin proc[c].wrote /\ "desc" \in proc[c].wrote
            /\ fs \in RegisteredWithoutDescriptor(r)
                   => /\ ~proc[c].pre.desc.exists
                      /\ ProfileComplete
                      /\ fs.favicon # "absent"
                      /\ fs.entry = OwnSymlink
                      /\ ~fs.desc.exists
                      /\ fs # EmptyLayout(OwnSymlink)
                      /\ fs \notin Registered(r)

\* both have ended without error and only the descriptor is missing
C16_Witness ==
    \E r, c \in Procs :
        /\ BothEndedWithoutError(r, c)
        /\ proc[r].pre = EmptyLayout(NoEntry)
        /\ {"symlink", "css", "js", "sentinel", "favicon", "desc"} \subseteq proc[r].wrote
        /\ proc[c].wrote = {"desc"}
        /\ fs \in RegisteredWithoutDescriptor(r)
        /\ fs.sentinel /\ fs.favicon # "absent" /\ fs.entry = OwnSymlink
        /\ ~fs.desc.exists

=============================================================================
